---- MODULE Spec2Model ----
(***************************************************************************)
(* A model of build-script-helper.py, the helper that builds, tests and    *)
(* installs Swift-DocC by running the toolchain's commands one after the   *)
(* other.                                                                  *)
(*                                                                         *)
(* A Python string on which the script computes (a target triple, the      *)
(* --cross-compile-hosts value, an argument of a command line) is a        *)
(* sequence of tokens: "-" is a token of its own and no other token        *)
(* contains it, so that split('-'), startswith and `in` are computed on    *)
(* the tokens as Python computes them on the characters.  The empty string *)
(* and the empty list are both the empty sequence, and both are falsy.     *)
(***************************************************************************)
EXTENDS Naturals, Sequences, FiniteSets, TLC

VARIABLES
  args,         \* the parsed command line (parse_args)
  toolchain,    \* what the machine and `swift -print-target-info` answer
  os_environ,   \* os.environ of the script's own process
  pc,           \* the statement of run()/install() the script will execute next
  stage,        \* the try block of run() the script is in
  env,          \* run()'s env dictionary, shared by every stage
  swiftpm_args, \* the options get_swiftpm_options assembled last
  child,        \* the child process the script is blocked on, or NoChild
  trace,        \* the launches and exits of child processes, in order
  stdout,       \* the stage banners printed
  stderr,       \* the messages printed to standard error
  exit_status,  \* the process's exit status, Running until it has exited
  run_no,       \* which invocation of the script this is
  prev          \* the first invocation's observable behaviour, once it ended

vars == <<args, toolchain, os_environ, pc, stage, env, swiftpm_args, child,
          trace, stdout, stderr, exit_status, run_no, prev>>

\* The number of invocations of the script a behaviour holds.
MaxRuns == 2

None == <<"None">>
NoChild == [kind |-> "none", argv |-> <<>>, env |-> <<>>]
\* exit_status while the process runs; <<0>> or <<1>> once it has exited
Running == <<>>

----------------------------------------------------------------------------
(* Strings as token sequences *)

S(x) == <<x>>

\* s.startswith(p)
StartsWith(s, p) == Len(s) >= Len(p) /\ SubSeq(s, 1, Len(p)) = p

\* p in s
Contains(s, p) ==
  \E i \in 1..(Len(s) + 1) : i + Len(p) - 1 <= Len(s) /\ SubSeq(s, i, i + Len(p) - 1) = p

\* s.split(sep), sep a single token
RECURSIVE SplitFrom(_, _, _, _)
SplitFrom(s, sep, i, cur) ==
  IF i > Len(s) THEN <<cur>>
  ELSE IF s[i] = sep THEN <<cur>> \o SplitFrom(s, sep, i + 1, <<>>)
  ELSE SplitFrom(s, sep, i + 1, Append(cur, s[i]))

Split(s, sep) == SplitFrom(s, sep, 1, <<>>)

\* The position of the last "/" of a path, 0 when it has none
LastSlash(p) ==
  IF \E i \in 1..Len(p) : p[i] = "/"
  THEN CHOOSE i \in 1..Len(p) : p[i] = "/" /\ \A j \in (i + 1)..Len(p) : p[j] # "/"
  ELSE 0

\* os.path.dirname(p), for the relative and absolute paths of the model
Dirname(p) == IF LastSlash(p) <= 1 THEN SubSeq(p, 1, LastSlash(p)) ELSE SubSeq(p, 1, LastSlash(p) - 1)

\* os.path.basename(p)
Basename(p) == SubSeq(p, LastSlash(p) + 1, Len(p))

\* os.path.join(p, q), q relative
PathJoin(p, q) == IF p = <<>> \/ p[Len(p)] = "/" THEN p \o q ELSE p \o <<"/">> \o q

----------------------------------------------------------------------------
(* The inputs *)

ActionChoices == {"all", "build", "test", "generate-xcodeproj", "install"}

\* What `swift -print-target-info` reports, with platform.system() of the machine.
Darwin ==
  [system |-> "Darwin",
   unversionedTriple |-> <<"arm64", "-", "apple", "-", "macosx">>,
   triple |-> <<"arm64", "-", "apple", "-", "macosx", "14.0">>]
Linux ==
  [system |-> "Linux",
   unversionedTriple |-> <<"x86_64", "-", "unknown", "-", "linux", "-", "gnu">>,
   triple |-> <<"x86_64", "-", "unknown", "-", "linux", "-", "gnu">>]
FreeBSD ==
  [system |-> "FreeBSD",
   unversionedTriple |-> <<"x86_64", "-", "unknown", "-", "freebsd">>,
   triple |-> <<"x86_64", "-", "unknown", "-", "freebsd", "14.0">>]
OpenBSD ==
  [system |-> "OpenBSD",
   unversionedTriple |-> <<"x86_64", "-", "unknown", "-", "openbsd">>,
   triple |-> <<"x86_64", "-", "unknown", "-", "openbsd", "7.5">>]
Windows ==
  [system |-> "Windows",
   unversionedTriple |-> <<"x86_64", "-", "unknown", "-", "windows", "-", "msvc">>,
   triple |-> <<"x86_64", "-", "unknown", "-", "windows", "-", "msvc">>]

AllToolchains == {Darwin, Linux, FreeBSD, OpenBSD, Windows}
RunToolchains == {Darwin, Linux}

\* Values of --cross-compile-hosts: not given (the default []), a macOS host, another host.
CrossCompileHosts ==
  {<<>>, <<"macosx", "-", "arm64">>, <<"linux", "-", "aarch64">>}

\* os.environ of the script: as a shell gives it, or as a build script that has
\* already set SWIFT_BUILD_SCRIPT_ENVIRONMENT gives it
BaseEnviron == [PATH |-> "/usr/bin:/bin"]
Environs == {BaseEnviron, ("SWIFT_BUILD_SCRIPT_ENVIRONMENT" :> "1") @@ BaseEnviron}

\* The command line: the flags of parse_args that run() reads, and the positional actions.
RawArgs(actionSets, verbosity) ==
  [build_actions : actionSets,
   update : BOOLEAN,
   no_local_deps : BOOLEAN,
   verbose : verbosity,
   install_dir : {None, <<"INSTALL_DIR", "/", "bin", "/", "docc">>},
   copy_doccrender_from : {None, <<"RENDER_SRC">>},
   copy_doccrender_to : {None, <<"RENDER_DST">>},
   cross_compile_hosts : CrossCompileHosts]

----------------------------------------------------------------------------
(* parse_args *)

\* With no positional action argparse checks the default itself, the list
\* ['build'], against choices: it is none of them, and parse_args ends the
\* process with a usage error and status 2 before run() is called.
usage_error(raw) == raw.build_actions = {}

UsageError == "error: argument build_actions: invalid choice: ['build']"

\* The namespace parse_args returns for a command line it accepts
parse_args(raw) ==
  raw
   @@ [package_path |-> <<"REPO", "/", "swift-docc">>,
       build_dir |-> <<"REPO", "/", "swift-docc", "/", ".build">>,
       configuration |-> S("debug"),
       multiroot_data_file |-> None,
       swift_exec |-> <<"TOOLCHAIN", "/", "bin", "/", "swift">>]

----------------------------------------------------------------------------
(* should_run_action *)

\* A should_run_action that forgets `all`
should_run_action_no_all(action_name, selected_actions) ==
  action_name \in selected_actions

should_run_action(action_name, selected_actions) ==
  IF action_name \in selected_actions THEN TRUE
  ELSE IF "all" \in selected_actions THEN TRUE
  ELSE FALSE

----------------------------------------------------------------------------
(* get_build_target and get_swiftpm_options *)

\* The triple get_build_target returns from the toolchain's target info
get_build_target(target_info) ==
  IF Contains(target_info.unversionedTriple, <<"-", "apple", "-", "macosx">>)
  THEN target_info.unversionedTriple
  ELSE target_info.triple

\* build_target.split('-')[2]
build_os_of(build_target) == Split(build_target, "-")[3]

Rpath(value) == <<S("-Xlinker"), S("-rpath"), S("-Xlinker"), value>>

\* rpath flags that take the FreeBSD rpath from the triple, OS version included
rpath_options_versioned(action, build_os) ==
  IF StartsWith(build_os, S("macosx"))
  THEN Rpath(<<"@executable_path/../lib/swift/", "macosx">>)
  ELSE IF StartsWith(build_os, S("openbsd"))
  THEN Rpath(<<"$ORIGIN/../lib/swift/", "openbsd">>)
       \o <<S("-Xlinker"), S("-z"), S("-Xlinker"), S("origin")>>
  ELSE Rpath(<<"$ORIGIN/../lib/swift/">> \o build_os)
       \o (IF action = "install" THEN <<S("--disable-local-rpath")>> ELSE <<>>)

\* The rpath flags of the build OS (and --disable-local-rpath where the branch adds it)
rpath_options(action, build_os) ==
  IF StartsWith(build_os, S("macosx"))
  THEN Rpath(<<"@executable_path/../lib/swift/", "macosx">>)
  ELSE IF StartsWith(build_os, S("freebsd"))
  THEN Rpath(<<"$ORIGIN/../lib/swift/", "freebsd">>)
       \o (IF action = "install" THEN <<S("--disable-local-rpath")>> ELSE <<>>)
  ELSE IF StartsWith(build_os, S("openbsd"))
  THEN Rpath(<<"$ORIGIN/../lib/swift/", "openbsd">>)
       \o <<S("-Xlinker"), S("-z"), S("-Xlinker"), S("origin")>>
  ELSE Rpath(<<"$ORIGIN/../lib/swift/">> \o build_os)
       \o (IF action = "install" THEN <<S("--disable-local-rpath")>> ELSE <<>>)

\* A test of the pair that looks at the hosts only, not at the build OS
cross_compile_supported_any_os(a, build_os) ==
  StartsWith(a.cross_compile_hosts, <<"macosx", "-">>)

\* Whether --cross-compile-hosts names the one supported pair
cross_compile_supported(a, build_os) ==
  StartsWith(build_os, S("macosx")) /\ StartsWith(a.cross_compile_hosts, <<"macosx", "-">>)

\* The --arch flags of a cross-compiling build
cross_compile_options(a, build_os) ==
  IF a.cross_compile_hosts # <<>> /\ cross_compile_supported(a, build_os)
  THEN <<S("--arch"), S("x86_64"), S("--arch"), S("arm64")>>
  ELSE <<>>

\* What get_swiftpm_options prints to standard error
cross_compile_errors(a, build_os) ==
  IF a.cross_compile_hosts # <<>> /\ ~cross_compile_supported(a, build_os)
  THEN <<"cannot cross-compile for <hosts>">>
  ELSE <<>>

\* The argument list get_swiftpm_options returns, build_target being what
\* get_build_target returned
get_swiftpm_options(action, a, build_target) ==
  <<S("--package-path"), a.package_path,
    S("--scratch-path"), a.build_dir,
    S("--configuration"), a.configuration>>
  \o (IF a.verbose \/ action = "install" THEN <<S("--verbose")>> ELSE <<>>)
  \o rpath_options(action, build_os_of(build_target))
  \o cross_compile_options(a, build_os_of(build_target))
  \o (IF action = "install" \/ action = "show-bin-path"
      THEN <<S("-Xswiftc"), S("-no-toolchain-stdlib-rpath")>> ELSE <<>>)
  \o (IF action = "test" THEN <<S("--parallel")>> ELSE <<>>)
  \o (IF action = "show-bin-path" THEN <<S("--show-bin-path")>> ELSE <<>>)

----------------------------------------------------------------------------
(* The command lines *)

Command(kind, argv, e) == [kind |-> kind, argv |-> argv, env |-> e]

\* update_swiftpm_dependencies
update_command(a, e) ==
  Command("update",
          <<a.swift_exec, S("package"), S("--package-path"), a.package_path,
            S("--scratch-path"), a.build_dir, S("update")>>, e)

\* generate_xcodeproj
generate_xcodeproj_command(a, e) ==
  Command("generate-xcodeproj",
          <<a.swift_exec, S("package"), S("--package-path"), a.package_path,
            S("generate-xcodeproj"), S("--output"),
            PathJoin(a.package_path, Basename(a.package_path) \o <<".xcodeproj">>)>>, e)

\* get_build_target's subprocess.check_output: no env argument, so the child
\* inherits the script's own environment
target_info_command(a, environ) ==
  Command("print-target-info", <<a.swift_exec, S("-print-target-info")>>, environ)

get_call_to_invoke_swift_single_product(action, product, a, opts, system) ==
  <<a.swift_exec, S(action)>> \o opts
  \o (IF system # "Darwin" THEN <<S("--enable-test-discovery")>> ELSE <<>>)
  \o (IF a.multiroot_data_file # None
      THEN <<S("--multiroot-data-file"), a.multiroot_data_file>> ELSE <<>>)
  \o (IF action = "test" THEN <<S("--test-product"), S(product)>>
      ELSE <<S("--product"), S(product)>>)

\* create_intermediate_directories: check_call's env defaults to os.environ
mkdir_command(dir_path, environ) ==
  Command("mkdir", <<S("mkdir"), S("-p"), dir_path>>, environ)

\* check_and_sync: check_call's env defaults to os.environ
rsync_command(file_path, install_path, environ) ==
  Command("rsync", <<S("rsync"), S("-a"), file_path, install_path>>, environ)

\* features_install_path of install()
features_install_path(a) ==
  PathJoin(Dirname(a.install_dir), <<"share", "/", "docc", "/", "features.json">>)

----------------------------------------------------------------------------
(* Child processes *)

\* An entry of trace: st is the stage of run() that runs the command
LaunchEvent(st, cmd) == [ev |-> "launch", stage |-> st, cmd |-> cmd, status |-> <<>>]
ExitEvent(st, cmd, status) == [ev |-> "exit", stage |-> st, cmd |-> cmd, status |-> <<status>>]

Blocked == child.kind # "none"

ExitsOf(t) == SelectSeq(t, LAMBDA e : e.ev = "exit")

\* The statuses the running child may exit with: any in the first invocation of
\* the script; in a later one the commands behave as they did in the first.
ChildStatuses ==
  LET k == Len(ExitsOf(trace)) + 1
  IN  IF run_no > 1 /\ k <= Len(ExitsOf(prev.trace))
      THEN {ExitsOf(prev.trace)[k].status[1]}
      ELSE {0, 1}

\* A launch that does not wait for the child (Popen without wait)
Launch_no_wait(st, cmd, out, echo) ==
  /\ child' = NoChild
  /\ trace' = Append(trace, LaunchEvent(st, cmd))
  /\ stdout' = IF echo THEN Append(out, "<command line>") ELSE out

\* check_call / subprocess.check_output: the command is echoed when verbose,
\* the child is started and the script blocks until it exits
Launch(st, cmd, out, echo) ==
  /\ child' = cmd
  /\ trace' = Append(trace, LaunchEvent(st, cmd))
  /\ stdout' = IF echo THEN Append(out, "<command line>") ELSE out

\* The message the except clause of each stage of run() prints
FailMessage(st) ==
  CASE st = "update" -> "FAIL: Updating dependencies failed"
    [] st = "build" -> "FAIL: Building failed"
    [] st = "generate-xcodeproj" -> "FAIL: Generating the Xcode project failed"
    [] st = "test" -> "FAIL: Testing failed"
    [] st = "install" -> "FAIL: Installing failed"

\* The child exits with status 0: check_call / check_output returns
child_returns ==
  /\ Blocked
  /\ 0 \in ChildStatuses
  /\ trace' = Append(trace, ExitEvent(stage, child, 0))
  /\ child' = NoChild
  /\ UNCHANGED <<args, toolchain, os_environ, pc, stage, env, swiftpm_args,
                 stdout, stderr, exit_status, run_no, prev>>

\* A non-zero status that is returned and ignored (subprocess.call)
child_fails_ignored ==
  /\ Blocked
  /\ 1 \in ChildStatuses
  /\ trace' = Append(trace, ExitEvent(stage, child, 1))
  /\ child' = NoChild
  /\ UNCHANGED <<args, toolchain, os_environ, pc, stage, env, swiftpm_args,
                 stdout, stderr, exit_status, run_no, prev>>

\* The child exits with a non-zero status: CalledProcessError is raised and the
\* except clause of the stage prints the failure and exits with status 1
child_fails ==
  /\ Blocked
  /\ 1 \in ChildStatuses
  /\ trace' = Append(trace, ExitEvent(stage, child, 1))
  /\ child' = NoChild
  /\ stderr' = stderr \o <<FailMessage(stage), "Executing: <command line>">>
  /\ exit_status' = <<1>>
  /\ pc' = "exit"
  /\ UNCHANGED <<args, toolchain, os_environ, stage, env, swiftpm_args,
                 stdout, run_no, prev>>

\* fatal_error
fatal_error(message) ==
  /\ stderr' = Append(stderr, message)
  /\ exit_status' = <<1>>
  /\ pc' = "exit"

----------------------------------------------------------------------------
(* run *)

config == <<args, toolchain, os_environ, run_no, prev>>

\* run(), lines 64-69: the environment of the children
run_setup ==
  /\ pc = "run"
  /\ env' = IF ~args.no_local_deps
            THEN ("SWIFTCI_USE_LOCAL_DEPS" :> "1") @@ os_environ
            ELSE os_environ
  /\ pc' = "update"
  /\ UNCHANGED <<config, stage, swiftpm_args, child, trace, stdout, stderr, exit_status>>

\* run(), lines 71-78
update_stage ==
  /\ pc = "update" /\ ~Blocked
  /\ IF args.update
     THEN /\ stage' = "update"
          /\ Launch("update", update_command(args, env),
                    Append(stdout, "** Updating dependencies **"), args.verbose)
     ELSE UNCHANGED <<stage, child, trace, stdout>>
  /\ pc' = "build"
  /\ UNCHANGED <<config, env, swiftpm_args, stderr, exit_status>>

\* The start of a stage that calls get_swiftpm_options: the banner, then
\* get_build_target asks the toolchain for the target
BeginSwiftStage(name, banner, invoke_pc, skip_pc) ==
  /\ ~Blocked
  /\ IF should_run_action(name, args.build_actions)
     THEN /\ stage' = name
          /\ Launch(name, target_info_command(args, os_environ), Append(stdout, banner), FALSE)
          /\ pc' = invoke_pc
     ELSE /\ pc' = skip_pc
          /\ UNCHANGED <<stage, child, trace, stdout>>
  /\ UNCHANGED <<config, env, swiftpm_args, stderr, exit_status>>

\* An invoke_swift that does not set SWIFT_BUILD_SCRIPT_ENVIRONMENT
InvokeSwift_no_flag(options_action, swift_action, product, next_pc) ==
  /\ ~Blocked
  /\ LET opts == get_swiftpm_options(options_action, args, get_build_target(toolchain))
     IN  /\ swiftpm_args' = opts
         /\ stderr' = stderr \o cross_compile_errors(args, build_os_of(get_build_target(toolchain)))
         /\ env' = env
         /\ Launch(stage, Command(IF swift_action = "test" THEN "swift-test" ELSE "swift-build",
                           get_call_to_invoke_swift_single_product(
                             swift_action, product, args, opts, toolchain.system),
                           env),
                   stdout, args.verbose)
  /\ pc' = next_pc
  /\ UNCHANGED <<config, stage, exit_status>>

\* The rest of get_swiftpm_options, then invoke_swift for the one product
InvokeSwift(options_action, swift_action, product, next_pc) ==
  /\ ~Blocked
  /\ LET opts == get_swiftpm_options(options_action, args, get_build_target(toolchain))
         e == ("SWIFT_BUILD_SCRIPT_ENVIRONMENT" :> "1") @@ env
     IN  /\ swiftpm_args' = opts
         /\ stderr' = stderr \o cross_compile_errors(args, build_os_of(get_build_target(toolchain)))
         /\ env' = e
         /\ Launch(stage, Command(IF swift_action = "test" THEN "swift-test" ELSE "swift-build",
                           get_call_to_invoke_swift_single_product(
                             swift_action, product, args, opts, toolchain.system),
                           e),
                   stdout, args.verbose)
  /\ pc' = next_pc
  /\ UNCHANGED <<config, stage, exit_status>>

\* A build stage that also runs when only install is requested
build_stage_implied_by_install ==
  /\ pc = "build" /\ ~Blocked
  /\ IF \/ should_run_action("build", args.build_actions)
        \/ should_run_action("install", args.build_actions)
     THEN /\ stage' = "build"
          /\ Launch("build", target_info_command(args, os_environ),
                    Append(stdout, "** Building **"), FALSE)
          /\ pc' = "build_invoke"
     ELSE /\ pc' = "generate"
          /\ UNCHANGED <<stage, child, trace, stdout>>
  /\ UNCHANGED <<config, env, swiftpm_args, stderr, exit_status>>

\* run(), lines 85-92
build_stage ==
  /\ pc = "build"
  /\ BeginSwiftStage("build", "** Building **", "build_invoke", "generate")

build_invoke ==
  /\ pc = "build_invoke"
  /\ InvokeSwift("build", "build", "docc", "generate")

\* run(), lines 98-104
generate_stage ==
  /\ pc = "generate" /\ ~Blocked
  /\ IF should_run_action("generate-xcodeproj", args.build_actions)
     THEN /\ stage' = "generate-xcodeproj"
          /\ Launch("generate-xcodeproj", generate_xcodeproj_command(args, env),
                    Append(stdout, "** Generating Xcode project **"), args.verbose)
     ELSE UNCHANGED <<stage, child, trace, stdout>>
  /\ pc' = "test"
  /\ UNCHANGED <<config, env, swiftpm_args, stderr, exit_status>>

\* run(), lines 110-117
test_stage ==
  /\ pc = "test"
  /\ BeginSwiftStage("test", "** Testing **", "test_invoke", "install")

test_invoke ==
  /\ pc = "test_invoke"
  /\ InvokeSwift("test", "test", "SwiftDocCPackageTests", "install")

\* run(), lines 123-131
install_stage ==
  /\ pc = "install"
  /\ BeginSwiftStage("install", "** Installing **", "install_invoke", "end")

\* An install stage that goes to the copy without building
install_invoke_no_build ==
  /\ pc = "install_invoke" /\ ~Blocked
  /\ pc' = "install_fn"
  /\ UNCHANGED <<config, stage, env, swiftpm_args, child, trace, stdout, stderr, exit_status>>

install_invoke ==
  /\ pc = "install_invoke"
  /\ InvokeSwift("install", "build", "docc", "install_fn")

\* run() returns: the process exits with status 0
run_returns ==
  /\ pc = "end" /\ ~Blocked
  /\ exit_status' = <<0>>
  /\ pc' = "exit"
  /\ UNCHANGED <<config, stage, env, swiftpm_args, child, trace, stdout, stderr>>

----------------------------------------------------------------------------
(* install *)

\* An install() without the check of --install-dir
install_fn_no_check ==
  /\ pc = "install_fn" /\ ~Blocked
  /\ Launch(stage, target_info_command(args, os_environ), stdout, FALSE)
  /\ pc' = "docc_bin_path"
  /\ UNCHANGED <<config, stage, env, swiftpm_args, stderr, exit_status>>

\* install(), lines 255-264: the check of --install-dir, then docc_bin_path
\* starts get_swiftpm_options('show-bin-path'), which asks for the target
install_fn ==
  /\ pc = "install_fn" /\ ~Blocked
  /\ IF args.install_dir = None
     THEN /\ fatal_error("Missing required '--install-dir' argument.")
          /\ UNCHANGED <<child, trace, stdout>>
     ELSE /\ Launch(stage, target_info_command(args, os_environ), stdout, FALSE)
          /\ pc' = "docc_bin_path"
          /\ UNCHANGED <<stderr, exit_status>>
  /\ UNCHANGED <<config, stage, env, swiftpm_args>>

\* docc_bin_path, lines 316-329
docc_bin_path ==
  /\ pc = "docc_bin_path" /\ ~Blocked
  /\ LET opts == get_swiftpm_options("show-bin-path", args, get_build_target(toolchain))
     IN  /\ swiftpm_args' = opts
         /\ stderr' = stderr \o cross_compile_errors(args, build_os_of(get_build_target(toolchain)))
         /\ Launch(stage, Command("show-bin-path",
                           get_call_to_invoke_swift_single_product(
                             "build", "docc", args, opts, toolchain.system),
                           env),
                   stdout, args.verbose)
  /\ pc' = "mkdir_docc"
  /\ UNCHANGED <<config, stage, env, exit_status>>

\* The path docc_bin_path returns: the bin path the toolchain printed, and 'docc'
docc_path == PathJoin(<<"BIN_PATH">>, <<"docc">>)

\* create_intermediate_directories, at its three calls in install()
create_intermediate_directories ==
  /\ pc \in {"mkdir_docc", "mkdir_features", "mkdir_render"} /\ ~Blocked
  /\ LET dir_path == CASE pc = "mkdir_docc" -> Dirname(args.install_dir)
                       [] pc = "mkdir_features" -> Dirname(features_install_path(args))
                       [] pc = "mkdir_render" -> args.copy_doccrender_to
     IN  Launch(stage, mkdir_command(dir_path, os_environ),
                Append(stdout, "-- note: creating intermediate directories"), args.verbose)
  /\ pc' = CASE pc = "mkdir_docc" -> "rsync_docc"
             [] pc = "mkdir_features" -> "rsync_features"
             [] pc = "mkdir_render" -> "rsync_render"
  /\ UNCHANGED <<config, stage, env, swiftpm_args, stderr, exit_status>>

\* check_and_sync, at its three calls in install()
check_and_sync ==
  /\ pc \in {"rsync_docc", "rsync_features", "rsync_render"} /\ ~Blocked
  /\ LET cmd == CASE pc = "rsync_docc" -> rsync_command(docc_path, args.install_dir, os_environ)
                  [] pc = "rsync_features" ->
                       rsync_command(PathJoin(args.package_path, <<"features.json">>),
                                     features_install_path(args), os_environ)
                  [] pc = "rsync_render" ->
                       rsync_command(PathJoin(args.copy_doccrender_from, <<>>),
                                     args.copy_doccrender_to, os_environ)
     IN  Launch(stage, cmd, Append(stdout, "-- note: installing"), args.verbose)
  /\ pc' = CASE pc = "rsync_docc" -> "mkdir_features"
             [] pc = "rsync_features" -> "render"
             [] pc = "rsync_render" -> "end"
  /\ UNCHANGED <<config, stage, env, swiftpm_args, stderr, exit_status>>

\* An install() without the check of --copy-doccrender-to
install_render_no_check ==
  /\ pc = "render" /\ ~Blocked
  /\ pc' = IF args.copy_doccrender_from = None THEN "end" ELSE "mkdir_render"
  /\ UNCHANGED <<config, stage, env, swiftpm_args, child, trace, stdout, stderr, exit_status>>

\* install(), lines 290-296: the template copy is made only when asked for
install_render ==
  /\ pc = "render" /\ ~Blocked
  /\ IF args.copy_doccrender_from = None
     THEN pc' = "end" /\ UNCHANGED <<stderr, exit_status>>
     ELSE IF args.copy_doccrender_to = None
     THEN fatal_error("Missing required '--copy-doccrender-to' argument since '--copy-doccrender-from' was passed.")
     ELSE pc' = "mkdir_render" /\ UNCHANGED <<stderr, exit_status>>
  /\ UNCHANGED <<config, stage, env, swiftpm_args, child, trace, stdout>>

----------------------------------------------------------------------------
(* The specifications *)

\* main: the state of a fresh process started with the command line raw, once
\* parse_args has returned or has ended the process
Start(raw, tc, environ) ==
  /\ args = parse_args(raw)
  /\ toolchain = tc
  /\ os_environ = environ
  /\ pc = IF usage_error(raw) THEN "exit" ELSE "run"
  /\ stage = "none"
  /\ env = environ
  /\ swiftpm_args = <<>>
  /\ child = NoChild
  /\ trace = <<>>
  /\ stdout = <<>>
  /\ stderr = IF usage_error(raw) THEN <<UsageError>> ELSE <<>>
  /\ exit_status = IF usage_error(raw) THEN <<2>> ELSE Running
  /\ run_no = 1
  /\ prev = [trace |-> <<>>, stdout |-> <<>>, stderr |-> <<>>, exit_status |-> Running]

Init ==
  \E raw \in RawArgs(SUBSET ActionChoices, {FALSE}), tc \in RunToolchains, environ \in Environs :
    Start(raw, tc, environ)

Step ==
  \/ run_setup
  \/ update_stage
  \/ build_stage
  \/ build_invoke
  \/ generate_stage
  \/ test_stage
  \/ test_invoke
  \/ install_stage
  \/ install_invoke
  \/ install_fn
  \/ docc_bin_path
  \/ create_intermediate_directories
  \/ check_and_sync
  \/ install_render
  \/ child_returns
  \/ child_fails
  \/ run_returns

Next == Step

Spec == Init /\ [][Next]_vars

----------------------------------------------------------------------------
(* Two invocations of the script: one asking for `all`, then one asking for the
   four actions by name, on the same machine, with the same flags and with
   commands that behave the same *)

IndividualActions == {"build", "generate-xcodeproj", "test", "install"}

\* main, run again once the process has exited
rerun ==
  /\ pc = "exit" /\ run_no < MaxRuns
  /\ prev' = IF run_no = 1
             THEN [trace |-> trace, stdout |-> stdout, stderr |-> stderr,
                   exit_status |-> exit_status]
             ELSE prev
  /\ run_no' = run_no + 1
  /\ args' = [args EXCEPT !.build_actions = IndividualActions]
  /\ pc' = "run"
  /\ stage' = "none"
  /\ env' = os_environ
  /\ swiftpm_args' = <<>>
  /\ child' = NoChild
  /\ trace' = <<>>
  /\ stdout' = <<>>
  /\ stderr' = <<>>
  /\ exit_status' = Running
  /\ UNCHANGED <<toolchain, os_environ>>

InitAll ==
  \E raw \in RawArgs({a \in SUBSET ActionChoices : "all" \in a}, BOOLEAN),
     tc \in RunToolchains :
    Start(raw, tc, BaseEnviron)

NextAll == Step \/ rerun

SpecAll == InitAll /\ [][NextAll]_vars

----------------------------------------------------------------------------------------------------------------------------------------
(* Runs on every toolchain: builds, tests and installs with --install-dir set
   and no template to copy, so that get_swiftpm_options is called for each of
   build, test, install and show-bin-path *)

InitOptions ==
  \E raw \in RawArgs(SUBSET {"build", "test", "install"} \ {{}}, BOOLEAN),
     tc \in AllToolchains :
    /\ ~raw.update /\ ~raw.no_local_deps
    /\ raw.install_dir # None
    /\ raw.copy_doccrender_from = None /\ raw.copy_doccrender_to = None
    /\ Start(raw, tc, BaseEnviron)

SpecOptions == InitOptions /\ [][Next]_vars

----------------------------------------------------------------------------
(* Reading the trace *)

Events == 1..Len(trace)
IsLaunch(i) == trace[i].ev = "launch"
IsExit(i) == trace[i].ev = "exit"
KindOf(i) == trace[i].cmd.kind
LaunchesOf(kinds) == {i \in Events : IsLaunch(i) /\ KindOf(i) \in kinds}
Failed(i) == IsExit(i) /\ trace[i].status # <<0>>
Succeeded(i) == IsExit(i) /\ trace[i].status = <<0>>
NoCommandFailed == \A i \in Events : ~Failed(i)
Printed(out, line) == \E i \in 1..Len(out) : out[i] = line
HasVar(e, name) == name \in DOMAIN e /\ e[name] = "1"

Requested(action) == action \in args.build_actions \/ "all" \in args.build_actions

StageBanners ==
  <<"** Updating dependencies **", "** Building **", "** Generating Xcode project **",
    "** Testing **", "** Installing **">>
StageNames == <<"update", "build", "generate-xcodeproj", "test", "install">>
StageSelected ==
  <<args.update, Requested("build"), Requested("generate-xcodeproj"),
    Requested("test"), Requested("install")>>
RankOf(names, x) == CHOOSE k \in 1..Len(names) : names[k] = x
IsBanner(line) == \E k \in 1..Len(StageBanners) : StageBanners[k] = line
Banners == SelectSeq(stdout, IsBanner)

\* The steps of the copy: the bin-path lookup, the mkdirs and the rsyncs
CopyKinds == {"show-bin-path", "mkdir", "rsync"}
SwiftKinds == {"swift-build", "swift-test"}
MissingInstallDir == "Missing required '--install-dir' argument."
MissingRenderTo ==
  "Missing required '--copy-doccrender-to' argument since '--copy-doccrender-from' was passed."
CrossCompileError == "cannot cross-compile for <hosts>"

----------------------------------------------------------------------------
(* C1 *)

\* C1: the stages of a run execute in the order update, build, generate-xcodeproj,
\* test, install, each at most once; a stage the run has passed was skipped only
\* if it was not selected, and none runs unselected; every command has exited
\* before the next one is launched.
StagesInFixedOrder ==
  /\ \A i, j \in 1..Len(Banners) :
       i < j => RankOf(StageBanners, Banners[i]) < RankOf(StageBanners, Banners[j])
  /\ \A i \in 1..(Len(trace) - 1) :
       RankOf(StageNames, trace[i].stage) <= RankOf(StageNames, trace[i + 1].stage)
  /\ \A k \in 1..Len(StageBanners) :
       /\ Printed(stdout, StageBanners[k]) => StageSelected[k]
       /\ ( /\ StageSelected[k]
            /\ \/ exit_status = <<0>>
               \/ \E m \in (k + 1)..Len(StageBanners) : Printed(stdout, StageBanners[m]) )
          => Printed(stdout, StageBanners[k])
  /\ \A i \in Events :
       /\ IsLaunch(i) <=> i % 2 = 1
       /\ IsExit(i) => trace[i].cmd = trace[i - 1].cmd
  /\ Blocked <=> Len(trace) % 2 = 1

\* A run in which all five stages ran and the process exited with status 0
AllStagesRan == exit_status = <<0>> /\ Len(Banners) = 5

----------------------------------------------------------------------------
(* C2 *)

\* C2: a command that exits with a non-zero status is the last event of the run,
\* which has exited with status 1 at once; a run exits with status 0 only if
\* every command it launched has exited with status 0.
FailFast ==
  /\ \A i \in Events :
       Failed(i) => i = Len(trace) /\ ~Blocked /\ pc = "exit" /\ exit_status = <<1>>
  /\ exit_status = <<0>> => NoCommandFailed /\ ~Blocked /\ Len(trace) % 2 = 0

\* A run ended by the failure of its third command or a later one
FailedAfterSuccesses == pc = "exit" /\ Len(trace) >= 6 /\ Failed(Len(trace))

----------------------------------------------------------------------------
(* C3 *)

InstallWithoutDir == Requested("install") /\ args.install_dir = None

\* C3 as claimed: with install requested and --install-dir unset, the install
\* stage launches no command at all.
InstallDirCheckedBeforeAnyCommand ==
  InstallWithoutDir => \A i \in Events : trace[i].stage # "install"

\* C3, amended: with install requested and --install-dir unset the run never
\* exits with status 0 and launches no step of the copy; the install stage
\* launches its target query and its build and nothing else, and the run ends
\* with the message naming '--install-dir' and status 1 exactly when no command
\* failed, that is, after the install stage's build has succeeded.
InstallDirCheckedAfterBuild ==
  InstallWithoutDir =>
    /\ exit_status # <<0>>
    /\ LaunchesOf(CopyKinds) = {}
    /\ Cardinality({i \in Events : IsLaunch(i) /\ trace[i].stage = "install"}) <= 2
    /\ Printed(stderr, MissingInstallDir) <=> (pc = "exit" /\ NoCommandFailed)
    /\ Printed(stderr, MissingInstallDir) =>
         /\ exit_status = <<1>>
         /\ \E i \in Events :
              Succeeded(i) /\ trace[i].stage = "install" /\ KindOf(i) = "swift-build"

\* The run has ended with the message naming '--install-dir'
MissingInstallDirReported == InstallWithoutDir /\ Printed(stderr, MissingInstallDir)

----------------------------------------------------------------------------
(* C4 *)

InstallBuildSucceededBefore(i) ==
  \E j \in 1..(i - 1) :
    Succeeded(j) /\ trace[j].stage = "install" /\ KindOf(j) = "swift-build"

\* C4: every step of the copy (the bin-path lookup with its target query, the
\* mkdirs, the rsyncs) is launched after the install stage's build has exited
\* with status 0; if that build fails, the failure of the install is printed,
\* the run exits with status 1 and no step of the copy is launched; a run
\* that installs and exits with status 0 has made that build.
InstallBuildsBeforeCopy ==
  /\ \A i \in Events :
       ( /\ IsLaunch(i)
         /\ \/ KindOf(i) \in CopyKinds
            \/ /\ KindOf(i) = "print-target-info"
               /\ \E j \in 1..(i - 1) : trace[j].stage = "install" )
       => InstallBuildSucceededBefore(i)
  /\ \A i \in Events :
       (Failed(i) /\ trace[i].stage = "install" /\ KindOf(i) = "swift-build")
       => /\ Printed(stderr, "FAIL: Installing failed")
          /\ exit_status = <<1>>
          /\ LaunchesOf(CopyKinds) = {}
  /\ (Requested("install") /\ exit_status = <<0>>)
       => InstallBuildSucceededBefore(Len(trace) + 1)

\* The binary is being copied
BinaryCopied == LaunchesOf({"rsync"}) # {}

----------------------------------------------------------------------------
(* C5 *)

RenderFromWithoutTo ==
  /\ Requested("install")
  /\ args.copy_doccrender_from # None
  /\ args.copy_doccrender_to = None

\* C5 as claimed: with --copy-doccrender-from set and --copy-doccrender-to
\* unset, no rsync is executed in the run.
NoCopyWithoutRenderDestination == RenderFromWithoutTo => LaunchesOf({"rsync"}) = {}

\* C5, amended: with --copy-doccrender-from set and --copy-doccrender-to unset
\* the run never exits with status 0, ends with status 1 and a message on
\* standard error, and never makes the template's directory nor copies the
\* template; the missing '--copy-doccrender-to' is reported, when
\* --install-dir is set and no command failed, only after the binary and
\* features.json have been copied.
RenderDestinationCheckedAfterCopies ==
  RenderFromWithoutTo =>
    /\ exit_status # <<0>>
    /\ pc = "exit" => exit_status = <<1>> /\ stderr # <<>>
    /\ Cardinality(LaunchesOf({"rsync"})) <= 2
    /\ Cardinality(LaunchesOf({"mkdir"})) <= 2
    /\ \A i \in LaunchesOf({"rsync"}) :
         trace[i].cmd.argv[3] # PathJoin(args.copy_doccrender_from, <<>>)
    /\ Printed(stderr, MissingRenderTo)
         <=> (pc = "exit" /\ NoCommandFailed /\ args.install_dir # None)
    /\ Printed(stderr, MissingRenderTo) =>
         /\ \E i \in Events : Succeeded(i) /\ KindOf(i) = "rsync"
                              /\ trace[i].cmd.argv[4] = args.install_dir
         /\ \E i \in Events : Succeeded(i) /\ KindOf(i) = "rsync"
                              /\ trace[i].cmd.argv[4] = features_install_path(args)

\* The run has ended with the message naming '--copy-doccrender-to'
MissingRenderToReported == RenderFromWithoutTo /\ Printed(stderr, MissingRenderTo)

----------------------------------------------------------------------------
(* C6 *)

IsPrefix(t, u) == Len(t) <= Len(u) /\ SubSeq(u, 1, Len(t)) = t

\* C6: a run asking for the four actions by name, with the flags, machine and
\* command outcomes of a run asking for `all` (alone or with other names),
\* launches the same commands in the same order, sees them exit alike, prints
\* the same and exits with the same status.
AllEqualsEveryAction ==
  run_no > 1 =>
    /\ IsPrefix(trace, prev.trace)
    /\ IsPrefix(stdout, prev.stdout)
    /\ IsPrefix(stderr, prev.stderr)
    /\ pc = "exit" =>
         /\ trace = prev.trace
         /\ stdout = prev.stdout
         /\ stderr = prev.stderr
         /\ exit_status = prev.exit_status

\* The second run has ended after an install that copied something
SecondRunEnded ==
  run_no = 2 /\ pc = "exit" /\ args.build_actions = IndividualActions
  /\ LaunchesOf({"rsync"}) # {}

----------------------------------------------------------------------------
(* C7 *)

\* C7 as claimed: in a run that requests install a build invocation precedes
\* every generate-xcodeproj and test invocation, and the build stage runs.
BuildStageImpliedByInstall ==
  "install" \in args.build_actions =>
    /\ \A i \in LaunchesOf({"generate-xcodeproj", "swift-test"}) :
         \E j \in 1..(i - 1) : IsLaunch(j) /\ KindOf(j) = "swift-build"
    /\ exit_status = <<0>> => Printed(stdout, "** Building **")

\* C7, amended: the build stage runs exactly when `build` or `all` is
\* requested, and then its build has succeeded before any generate-xcodeproj or
\* test invocation; in a run that requests install without build (and without
\* all) every build invocation belongs to the install stage and comes after
\* every generate-xcodeproj and test invocation, and the run exits with status
\* 0 only after such a build.
BuildStageOnlyWhenRequested ==
  /\ Printed(stdout, "** Building **") => Requested("build")
  /\ ( /\ Requested("build")
       /\ \/ exit_status = <<0>>
          \/ \E i \in Events : trace[i].stage \in {"generate-xcodeproj", "test", "install"} )
     => Printed(stdout, "** Building **")
  /\ Requested("build") =>
       \A i \in LaunchesOf({"generate-xcodeproj", "swift-test"}) :
         \E j \in 1..(i - 1) :
           Succeeded(j) /\ trace[j].stage = "build" /\ KindOf(j) = "swift-build"
  /\ ("install" \in args.build_actions /\ ~Requested("build")) =>
       /\ \A i \in LaunchesOf({"swift-build"}) :
            /\ trace[i].stage = "install"
            /\ \A j \in LaunchesOf({"generate-xcodeproj", "swift-test"}) : j < i
       /\ exit_status = <<0>> => LaunchesOf({"swift-build"}) # {}

\* Install and test without build: the only build is launched after the tests
BuildAfterTest ==
  /\ args.build_actions = {"install", "test"}
  /\ \E i \in LaunchesOf({"swift-build"}), j \in LaunchesOf({"swift-test"}) : j < i

----------------------------------------------------------------------------
(* C8 *)

\* The invocations that are given run()'s env
EnvKinds == {"update", "swift-build", "generate-xcodeproj", "swift-test", "show-bin-path"}

\* C8 as claimed: each of these invocations carries
\* SWIFT_BUILD_SCRIPT_ENVIRONMENT=1 and, unless --no-local-deps,
\* SWIFTCI_USE_LOCAL_DEPS=1.
EveryInvocationCarriesBothFlags ==
  \A i \in LaunchesOf(EnvKinds) :
    /\ HasVar(trace[i].cmd.env, "SWIFT_BUILD_SCRIPT_ENVIRONMENT")
    /\ ~args.no_local_deps => HasVar(trace[i].cmd.env, "SWIFTCI_USE_LOCAL_DEPS")

\* C8, amended: each of these invocations carries the script's own environment
\* and, unless --no-local-deps, SWIFTCI_USE_LOCAL_DEPS=1; it carries
\* SWIFT_BUILD_SCRIPT_ENVIRONMENT=1 exactly when it is a swift build or test
\* invocation, or follows one in the run, or the script's own environment has it
\* already: the dependency update, and a generate-xcodeproj with no build stage
\* before it, are not given the flag by the script.
EnvironmentFlagsOfInvocations ==
  \A i \in LaunchesOf(EnvKinds) :
    /\ \A name \in DOMAIN os_environ :
         name \in DOMAIN trace[i].cmd.env /\ trace[i].cmd.env[name] = os_environ[name]
    /\ ~args.no_local_deps => HasVar(trace[i].cmd.env, "SWIFTCI_USE_LOCAL_DEPS")
    /\ HasVar(trace[i].cmd.env, "SWIFT_BUILD_SCRIPT_ENVIRONMENT")
         <=> \/ KindOf(i) \in SwiftKinds
             \/ \E j \in 1..(i - 1) : IsLaunch(j) /\ KindOf(j) \in SwiftKinds
             \/ HasVar(os_environ, "SWIFT_BUILD_SCRIPT_ENVIRONMENT")

\* A dependency update launched without the flag, and a build launched with it
UpdateWithoutFlagThenBuild ==
  \E i \in LaunchesOf({"update"}), j \in LaunchesOf({"swift-build"}) :
    /\ i < j
    /\ ~HasVar(trace[i].cmd.env, "SWIFT_BUILD_SCRIPT_ENVIRONMENT")
    /\ HasVar(trace[j].cmd.env, "SWIFT_BUILD_SCRIPT_ENVIRONMENT")

----------------------------------------------------------------------------
(* C9 *)

ArchFlags == <<S("--arch"), S("x86_64"), S("--arch"), S("arm64")>>
HasArg(argv, arg) == \E k \in 1..Len(argv) : argv[k] = arg
OptionKinds == {"swift-build", "swift-test", "show-bin-path"}
SupportedPair ==
  /\ toolchain.system = "Darwin"
  /\ Len(args.cross_compile_hosts) >= 2
  /\ args.cross_compile_hosts[1] = "macosx" /\ args.cross_compile_hosts[2] = "-"

\* C9: with a (non-empty) --cross-compile-hosts, on macOS with hosts starting
\* with 'macosx-' every toolchain invocation carries --arch x86_64 --arch arm64
\* and no error is printed; otherwise no invocation carries --arch, the error
\* is printed once for each argument list assembled, the invocation is launched
\* all the same, and the run exits with status 1 only for a failed command or a
\* missing required argument.
CrossCompileWarningIsSoft ==
  args.cross_compile_hosts # <<>> =>
    IF SupportedPair
    THEN /\ \A i \in LaunchesOf(OptionKinds) : Contains(trace[i].cmd.argv, ArchFlags)
         /\ ~Printed(stderr, CrossCompileError)
    ELSE /\ \A i \in LaunchesOf(OptionKinds) : ~HasArg(trace[i].cmd.argv, S("--arch"))
         /\ Len(SelectSeq(stderr, LAMBDA m : m = CrossCompileError))
              = Cardinality(LaunchesOf(OptionKinds))
         /\ exit_status = <<1>> =>
              \/ ~NoCommandFailed
              \/ Printed(stderr, MissingInstallDir)
              \/ Printed(stderr, MissingRenderTo)

\* A run that printed the cross-compile error, ran its commands and exited with 0
WarnedAndSucceeded ==
  /\ Printed(stderr, CrossCompileError)
  /\ exit_status = <<0>>
  /\ LaunchesOf(SwiftKinds) # {}

----------------------------------------------------------------------------
(* C10 *)

\* The rpath of each operating-system family
ExpectedRpath(system) ==
  CASE system = "Darwin" -> <<"@executable_path/../lib/swift/", "macosx">>
    [] system = "FreeBSD" -> <<"$ORIGIN/../lib/swift/", "freebsd">>
    [] system = "OpenBSD" -> <<"$ORIGIN/../lib/swift/", "openbsd">>
    [] system = "Linux" -> <<"$ORIGIN/../lib/swift/", "linux">>
    [] system = "Windows" -> <<"$ORIGIN/../lib/swift/", "windows">>

RpathPositions(opts) == {k \in 1..Len(opts) : opts[k] = S("-rpath")}

\* The argument list holds one -rpath, passed as -Xlinker -rpath -Xlinker
\* <value>, with the value of the operating-system family
HasFamilyRpath(opts) ==
  /\ Cardinality(RpathPositions(opts)) = 1
  /\ \A k \in RpathPositions(opts) :
       /\ k > 1 /\ k + 2 <= Len(opts)
       /\ opts[k - 1] = S("-Xlinker")
       /\ opts[k + 1] = S("-Xlinker")
       /\ opts[k + 2] = ExpectedRpath(toolchain.system)

\* C10: on every toolchain the options get_swiftpm_options assembles for
\* build, test, install and show-bin-path, and so every toolchain invocation
\* launched with them, hold exactly one -rpath, and its value is the one of
\* the operating-system family.
OneRpathPerFamily ==
  /\ swiftpm_args # <<>> => HasFamilyRpath(swiftpm_args)
  /\ \A i \in LaunchesOf(OptionKinds) : HasFamilyRpath(trace[i].cmd.argv)

\* An install on FreeBSD, whose triple carries the OS version, that has built
\* with the install options and looked the bin path up
FreeBSDInstallOptions ==
  /\ toolchain.system = "FreeBSD"
  /\ \E i \in LaunchesOf({"swift-build"}) : trace[i].stage = "install"
  /\ LaunchesOf({"show-bin-path"}) # {}
  /\ LaunchesOf({"swift-test"}) # {}

====
